---------------------------- MODULE Spec2Model ----------------------------
(***************************************************************************)
(* A model of src/main.py (TickerSentimentMonitor): ticker-mention         *)
(* resolution, per-item sentiment labelling, the fan-out aggregation of    *)
(* fetch_and_analyse_articles and the summaries of generate_html_report.   *)
(*                                                                         *)
(* Text is a sequence of one-character strings, so that lower(), upper(),  *)
(* strip(), split(',') and the substring test `in` are computed and not    *)
(* assumed.  Scores are integers in hundredths (0.4 is 40).                *)
(***************************************************************************)
EXTENDS Integers, Sequences, FiniteSets, TLC

VARIABLES
    pc,               \* where the program is: main, ready, scan, report, send, done, crashed
    environ,          \* os.environ restricted to WATCH_TICKERS
    mappings_file,    \* what open('ticker_mappings.json') finds
    watch_tickers,    \* self.watch_tickers
    ticker_to_names,  \* self.ticker_to_names
    extract_call,     \* the last call of extract_tickers: its text and its result
    feed_no,          \* index i of the feed loop (line 179)
    feed_entries,     \* feed.entries[:10] of the feed being read
    entry_no,         \* number of entries of that feed consumed so far
    feed_log,         \* per feed read so far: its entries and how its loop body ended
    all_articles,     \* all_articles (line 174)
    ticker_articles,  \* ticker_articles (line 175)
    report,           \* what generate_html_report renders
    email             \* what send_email did

vars == <<pc, environ, mappings_file, watch_tickers, ticker_to_names, extract_call,
          feed_no, feed_entries, entry_no, feed_log, all_articles,
          ticker_articles, report, email>>

-----------------------------------------------------------------------------
(* Bounds of the model *)

\* a text handed to extract_tickers is made of at most this many fragments
MaxFrags == 2

\* the feed list of lines 44-50 is cut to this many feeds
NumFeeds == 2

\* the feeds of one run deliver at most this many entries in all
MaxItems == 3

\* a list handed to generate_html_report alone holds at most this many articles
MaxArticles == 6

-----------------------------------------------------------------------------
(* Character strings *)

UpperChars == <<"A","B","C","D","E","F","G","H","I","J","K","L","M",
                "N","O","P","Q","R","S","T","U","V","W","X","Y","Z">>
LowerChars == <<"a","b","c","d","e","f","g","h","i","j","k","l","m",
                "n","o","p","q","r","s","t","u","v","w","x","y","z">>

LowerMap == [c \in {UpperChars[i] : i \in DOMAIN UpperChars} |->
                LowerChars[CHOOSE i \in DOMAIN UpperChars : UpperChars[i] = c]]
UpperMap == [c \in {LowerChars[i] : i \in DOMAIN LowerChars} |->
                UpperChars[CHOOSE i \in DOMAIN LowerChars : LowerChars[i] = c]]

\* str.lower() on one character
LowerChar(c) == IF c \in DOMAIN LowerMap THEN LowerMap[c] ELSE c

\* str.upper() on one character
UpperChar(c) == IF c \in DOMAIN UpperMap THEN UpperMap[c] ELSE c

Lower(s) == [i \in DOMAIN s |-> LowerChar(s[i])]
Upper(s) == [i \in DOMAIN s |-> UpperChar(s[i])]

\* Python's `needle in hay` on strings
Contains(hay, needle) ==
    \E i \in 0..(Len(hay) - Len(needle)) :
        \A j \in 1..Len(needle) : hay[i + j] = needle[j]

IsSpace(c) == c = " "

\* str.strip()
RECURSIVE LStrip(_)
LStrip(s) == IF s # <<>> /\ IsSpace(Head(s)) THEN LStrip(Tail(s)) ELSE s
RECURSIVE RStrip(_)
RStrip(s) ==
    IF s # <<>> /\ IsSpace(s[Len(s)]) THEN RStrip(SubSeq(s, 1, Len(s) - 1)) ELSE s
Strip(s) == RStrip(LStrip(s))

\* str.split(','): the empty string splits into one empty field
RECURSIVE SplitComma(_)
SplitComma(s) ==
    IF \E i \in DOMAIN s : s[i] = ","
    THEN LET i == CHOOSE k \in DOMAIN s : s[k] = "," /\ \A j \in 1..(k - 1) : s[j] # ","
         IN  <<SubSeq(s, 1, i - 1)>> \o SplitComma(SubSeq(s, i + 1, Len(s)))
    ELSE <<s>>

Range(f) == {f[i] : i \in DOMAIN f}

-----------------------------------------------------------------------------
(* The strings of the program and of its inputs *)

S_AAPL == <<"A", "A", "P", "L">>
S_TSLA == <<"T", "S", "L", "A">>
S_OPEN == <<"O", "P", "E", "N">>
S_MSTR == <<"M", "S", "T", "R">>
S_FIG == <<"F", "I", "G">>
S_Apple == <<"A", "p", "p", "l", "e">>
S_Tesla == <<"T", "e", "s", "l", "a">>
S_Opendoor == <<"O", "p", "e", "n", "d", "o", "o", "r">>
S_MicroStrategy == <<"M", "i", "c", "r", "o", "S", "t", "r", "a", "t", "e", "g", "y">>
S_Figma == <<"F", "i", "g", "m", "a">>
S_openai == <<"o", "p", "e", "n", "a", "i">>
S_open_ai == <<"o", "p", "e", "n", " ", "a", "i">>
S_open_dash_ai == <<"o", "p", "e", "n", "-", "a", "i">>
S_open_source == <<"o", "p", "e", "n", " ", "s", "o", "u", "r", "c", "e">>
S_opendoor == <<"o", "p", "e", "n", "d", "o", "o", "r">>
S_real_estate == <<"r", "e", "a", "l", " ", "e", "s", "t", "a", "t", "e">>
S_housing == <<"h", "o", "u", "s", "i", "n", "g">>
S_armstrong == <<"a", "r", "m", "s", "t", "r", "o", "n", "g">>
S_arm_strong == <<"a", "r", "m", " ", "s", "t", "r", "o", "n", "g">>
S_microstrategy == <<"m", "i", "c", "r", "o", "s", "t", "r", "a", "t", "e", "g", "y">>
S_bitcoin == <<"b", "i", "t", "c", "o", "i", "n">>
S_saylor == <<"s", "a", "y", "l", "o", "r">>
S_figure == <<"f", "i", "g", "u", "r", "e">>
S_figures == <<"f", "i", "g", "u", "r", "e", "s">>

\* "OpenAI announced..."
T_OpenAI == <<"O", "p", "e", "n", "A", "I", " ", "a", "n", "n", "o", "u", "n", "c", "e", "d", ".", ".", ".">>
\* "MicroStrategy bought more bitcoin"
T_MicroStrategy == <<"M", "i", "c", "r", "o", "S", "t", "r", "a", "t", "e", "g", "y", " ", "b", "o", "u", "g", "h", "t", " ", "m", "o", "r", "e", " ", "b", "i", "t", "c", "o", "i", "n">>
\* "Apple posts record iPhone sales"
T_ApplePosts == <<"A", "p", "p", "l", "e", " ", "p", "o", "s", "t", "s", " ", "r", "e", "c", "o", "r", "d", " ", "i", "P", "h", "o", "n", "e", " ", "s", "a", "l", "e", "s">>
\* "Tesla misses delivery estimates"
T_TeslaMisses == <<"T", "e", "s", "l", "a", " ", "m", "i", "s", "s", "e", "s", " ", "d", "e", "l", "i", "v", "e", "r", "y", " ", "e", "s", "t", "i", "m", "a", "t", "e", "s">>

F_Open == <<"O", "p", "e", "n">>
F_AI == <<"A", "I">>
F_space == <<" ">>
F_door == <<"d", "o", "o", "r">>
F_Armstrong == <<"A", "r", "m", "s", "t", "r", "o", "n", "g">>
F_fig == <<"f", "i", "g">>
F_ure == <<"u", "r", "e">>
F_aapl == <<"a", "a", "p", "l">>
F_source == <<"s", "o", "u", "r", "c", "e">>

\* values of the environment variable WATCH_TICKERS
E_AAPL_TSLA == <<"A", "A", "P", "L", ",", "T", "S", "L", "A">>
E_open_MSTR == <<"o", "p", "e", "n", ",", " ", "M", "S", "T", "R">>
E_FIG_OPEN_AAPL == <<"F", "I", "G", ",", "O", "P", "E", "N", " ", ",", "a", "a", "p", "l">>
E_dup == <<"A", "A", "P", "L", ",", "a", "a", "p", "l">>

-----------------------------------------------------------------------------
(* Configuration: the environment and ticker_mappings.json *)

NoEnviron == [k \in {} |-> <<>>]
EnvWith(v) == [k \in {"WATCH_TICKERS"} |-> v]

\* os.environ.get(key, default)
environ_get(env, key, default) == IF key \in DOMAIN env THEN env[key] ELSE default

Info(aliases) == [has_aliases |-> TRUE, aliases |-> aliases]
InfoNoAliases == [has_aliases |-> FALSE, aliases |-> <<>>]

FileMissing == [kind |-> "missing", data |-> <<>>]
FileMalformed == [kind |-> "malformed", data |-> <<>>]
FileJson(data) == [kind |-> "json", data |-> data]

\* a mapping file with an entry for each of the five symbols
FullData ==
    (S_AAPL :> Info(<<S_AAPL, S_Apple>>)) @@
    (S_TSLA :> Info(<<S_TSLA, S_Tesla>>)) @@
    (S_OPEN :> Info(<<S_Opendoor, S_OPEN>>)) @@
    (S_MSTR :> Info(<<S_MicroStrategy, S_MSTR>>)) @@
    (S_FIG :> Info(<<S_Figma, S_FIG>>))

\* a mapping file that knows AAPL only, and a lower-case key that matches nothing
PartialData ==
    (S_AAPL :> Info(<<S_Apple>>)) @@ (F_aapl :> Info(<<F_aapl>>))

\* a mapping file with degenerate entries
DegenerateData ==
    (S_AAPL :> InfoNoAliases) @@
    (S_OPEN :> Info(<<>>)) @@
    (S_MSTR :> Info(<<S_MicroStrategy>>)) @@
    (S_FIG :> InfoNoAliases)

-----------------------------------------------------------------------------
(* main() and __init__ *)

\* main, lines 504-505, then __init__, line 23
ParseWatchTickers(env) ==
    LET watch_tickers_str == environ_get(env, "WATCH_TICKERS", <<>>)
        fields == SplitComma(watch_tickers_str)
    IN  [i \in DOMAIN fields |-> Upper(Strip(fields[i]))]

load_ticker_mappings(file, watch) ==
    IF file.kind = "json"
    THEN [ticker \in DOMAIN file.data |->
            IF file.data[ticker].has_aliases
            THEN file.data[ticker].aliases
            ELSE <<ticker>>]
    ELSE [ticker \in Range(watch) |-> <<ticker>>]

\* __init__, lines 29-32
InitTickerToNames(file, watch) ==
    LET loaded == load_ticker_mappings(file, watch)
    IN  [ticker \in {t \in DOMAIN loaded : t \in Range(watch)} |-> loaded[ticker]]

-----------------------------------------------------------------------------
(* Mention resolution *)

\* a variant in which the rule of FIG has no exclusion phrase
false_positive_filters_fig_empty ==
    (S_OPEN :> [exclude_phrases |-> <<S_openai, S_open_ai, S_open_dash_ai, S_open_source>>,
                require_context |-> <<S_opendoor, S_real_estate, S_housing>>]) @@
    (S_MSTR :> [exclude_phrases |-> <<S_armstrong, S_arm_strong>>,
                require_context |-> <<S_microstrategy, S_bitcoin, S_saylor>>]) @@
    (S_FIG :> [exclude_phrases |-> <<>>,
               require_context |-> <<>>])

\* _validate_mention, lines 77-90
false_positive_filters ==
    (S_OPEN :> [exclude_phrases |-> <<S_openai, S_open_ai, S_open_dash_ai, S_open_source>>,
                require_context |-> <<S_opendoor, S_real_estate, S_housing>>]) @@
    (S_MSTR :> [exclude_phrases |-> <<S_armstrong, S_arm_strong>>,
                require_context |-> <<S_microstrategy, S_bitcoin, S_saylor>>]) @@
    (S_FIG :> [exclude_phrases |-> <<S_figure, S_figures>>,
               require_context |-> <<>>])

\* a variant in which require_context gates the match
validate_mention_gated(text, name, ticker) ==
    LET text_lower == Lower(text)
    IN  IF ticker \in DOMAIN false_positive_filters
        THEN LET filters == false_positive_filters[ticker]
             IN  /\ ~ \E i \in DOMAIN filters.exclude_phrases :
                        Contains(text_lower, filters.exclude_phrases[i])
                 /\ \/ filters.require_context = <<>>
                    \/ \E i \in DOMAIN filters.require_context :
                        Contains(text_lower, filters.require_context[i])
        ELSE TRUE

validate_mention(text, name, ticker) ==
    LET text_lower == Lower(text)
    IN  IF ticker \in DOMAIN false_positive_filters
        THEN LET filters == false_positive_filters[ticker]
             IN  ~ \E i \in DOMAIN filters.exclude_phrases :
                     Contains(text_lower, filters.exclude_phrases[i])
        ELSE TRUE

\* a variant that looks for the symbol in the lower-cased text
bare_symbol_hit_in_lower(text_upper, ticker) == Contains(Lower(text_upper), ticker)

\* extract_tickers, lines 110-114: the ticker has no entry in ticker_to_names
bare_symbol_hit(text_upper, ticker) == Contains(text_upper, ticker)

\* extract_tickers, lines 115-123: the first alias that matches and is valid
RECURSIVE alias_hit(_, _, _, _)
alias_hit(text, text_lower, ticker, aliases) ==
    IF aliases = <<>>
    THEN FALSE
    ELSE LET name == Head(aliases)
             name_lower == Lower(name)
         IN  IF Contains(text_lower, name_lower) /\ validate_mention(text, name, ticker)
             THEN TRUE
             ELSE alias_hit(text, text_lower, ticker, Tail(aliases))

\* extract_tickers, the loop of line 109 from watch-list position i on
RECURSIVE extract_loop(_, _, _, _, _, _, _)
extract_loop(text, text_upper, text_lower, watch, names, i, found_tickers) ==
    IF i > Len(watch)
    THEN found_tickers
    ELSE LET ticker == watch[i]
             hit == IF ticker \notin DOMAIN names
                    THEN bare_symbol_hit(text_upper, ticker)
                    ELSE alias_hit(text, text_lower, ticker, names[ticker])
         IN  extract_loop(text, text_upper, text_lower, watch, names, i + 1,
                          IF hit THEN found_tickers \cup {ticker} ELSE found_tickers)

extract_tickers(text, watch, names) ==
    LET text_upper == Upper(text)
        text_lower == Lower(text)
    IN  extract_loop(text, text_upper, text_lower, watch, names, 1, {})

-----------------------------------------------------------------------------
(* Sentiment scoring *)

\* what the tokenizer and the model do with one text: they raise, or they give the
\* softmax probabilities of the positive and the negative class, in hundredths
ScorerRaises == [raised |-> TRUE, positive_prob |-> 0, negative_prob |-> 0]
ScorerGives(p, n) == [raised |-> FALSE, positive_prob |-> p, negative_prob |-> n]

\* analyse_sentiment, lines 138-147
score_label(score) ==
    IF score > 50 THEN "VERY BULLISH"
    ELSE IF score > 10 THEN "Bullish"
    ELSE IF score < -50 THEN "VERY BEARISH"
    ELSE IF score < -10 THEN "Bearish"
    ELSE "Neutral"

\* a variant that lets the scorer's exception escape
analyse_sentiment_raising(outcome) ==
    IF outcome.raised
    THEN [raised |-> TRUE, sentiment |-> "", score |-> 0]
    ELSE LET score == outcome.positive_prob - outcome.negative_prob
         IN  [raised |-> FALSE, sentiment |-> score_label(score), score |-> score]

\* analyse_sentiment, lines 127-152: a failure of the scorer becomes ("Neutral", 0.0)
analyse_sentiment(outcome) ==
    IF outcome.raised
    THEN [raised |-> FALSE, sentiment |-> "Neutral", score |-> 0]
    ELSE LET score == outcome.positive_prob - outcome.negative_prob
         IN  [raised |-> FALSE, sentiment |-> score_label(score), score |-> score]

-----------------------------------------------------------------------------
(* Aggregation *)

Min(a, b) == IF a < b THEN a ELSE b
Abs(x) == IF x < 0 THEN -x ELSE x

\* f"{title} {summary}", line 192
combined_text(title, summary) == title \o <<" ">> \o summary

\* lines 198-207; `entry` stands for the identity of the dict built from that raw item
make_article(uid, entry, names_found, verdict) ==
    [entry |-> uid, title |-> entry.title, summary |-> entry.summary,
     sentiment |-> verdict.sentiment, score |-> verdict.score, tickers |-> names_found]

\* ticker_articles.get(ticker, []), lines 225 and 381
articles_of(lists, ticker) == IF ticker \in DOMAIN lists THEN lists[ticker] ELSE <<>>

\* a variant that files the article under one of its tickers only
fan_out_exclusive(lists, tickers, article) ==
    IF tickers = {}
    THEN lists
    ELSE LET t == CHOOSE x \in tickers : TRUE
         IN  [x \in DOMAIN lists \cup {t} |->
                IF x = t THEN Append(articles_of(lists, x), article) ELSE lists[x]]

\* lines 212-213: ticker_articles[ticker].append(article) for every mentioned ticker
fan_out(lists, tickers, article) ==
    [t \in DOMAIN lists \cup tickers |->
        IF t \in tickers THEN Append(articles_of(lists, t), article) ELSE lists[t]]

-----------------------------------------------------------------------------
(* Report *)

RECURSIVE sum_scores(_)
sum_scores(articles) ==
    IF articles = <<>> THEN 0 ELSE Head(articles).score + sum_scores(Tail(articles))

\* a variant with the thresholds of analyse_sentiment
summary_label_as_scored(total, n) ==
    IF total > 50 * n THEN "VERY BULLISH"
    ELSE IF total > 10 * n THEN "BULLISH"
    ELSE IF total < -50 * n THEN "VERY BEARISH"
    ELSE IF total < -10 * n THEN "BEARISH"
    ELSE "Neutral"

\* lines 237-251 and 392-406: the label of the mean total / n, for n > 0; the mean is
\* compared as a fraction (total / n > 0.3 is total > 30 * n in hundredths)
summary_label(total, n) ==
    IF total > 30 * n THEN "BULLISH"
    ELSE IF total > 0 THEN "Slightly Bullish"
    ELSE IF total < -30 * n THEN "BEARISH"
    ELSE IF total < 0 THEN "Slightly Bearish"
    ELSE "Neutral"

\* a variant that tests the mean for truth instead of the list
overall_summary_falsy(articles) ==
    IF articles # <<>> /\ sum_scores(articles) # 0
    THEN [label |-> summary_label(sum_scores(articles), Len(articles)),
          total |-> sum_scores(articles), n |-> Len(articles)]
    ELSE [label |-> "No Data", total |-> 0, n |-> 1]

\* lines 234-255: the mean is kept as the fraction total / n; an empty list gives 0
overall_summary(articles) ==
    IF articles # <<>>
    THEN [label |-> summary_label(sum_scores(articles), Len(articles)),
          total |-> sum_scores(articles), n |-> Len(articles)]
    ELSE [label |-> "No Data", total |-> 0, n |-> 1]

\* a variant of the insertion below that puts an article before its equals
insert_before_equals(sorted, a) ==
    LET k == Cardinality({i \in DOMAIN sorted : Abs(sorted[i].score) > Abs(a.score)})
    IN  SubSeq(sorted, 1, k) \o <<a>> \o SubSeq(sorted, k + 1, Len(sorted))

\* one step of the stable sort of line 422: an article goes after every article of the
\* sorted prefix whose absolute score is at least its own
insert_by_abs(sorted, a) ==
    LET k == Cardinality({i \in DOMAIN sorted : Abs(sorted[i].score) >= Abs(a.score)})
    IN  SubSeq(sorted, 1, k) \o <<a>> \o SubSeq(sorted, k + 1, Len(sorted))

\* sorted(articles, key=lambda x: abs(x['score']), reverse=True), line 422
RECURSIVE sorted_by_abs(_, _)
sorted_by_abs(done, rest) ==
    IF rest = <<>> THEN done ELSE sorted_by_abs(insert_by_abs(done, Head(rest)), Tail(rest))

\* sorted_articles[:5], line 424
TopK == 5
top_articles(articles) ==
    LET sorted_articles == sorted_by_abs(<<>>, articles)
    IN  SubSeq(sorted_articles, 1, Min(TopK, Len(sorted_articles)))

\* lines 380-460, one ticker's section
ticker_section(ticker, lists) ==
    LET articles == articles_of(lists, ticker)
    IN  IF articles # <<>>
        THEN [ticker |-> ticker, no_articles |-> FALSE,
              label |-> summary_label(sum_scores(articles), Len(articles)),
              total |-> sum_scores(articles), n |-> Len(articles),
              count |-> Len(articles), headlines |-> top_articles(articles)]
        ELSE [ticker |-> ticker, no_articles |-> TRUE,
              label |-> "", total |-> 0, n |-> 1, count |-> 0, headlines |-> <<>>]

\* a variant that renders only the tickers that have articles
ticker_sections_hits_only(watch, lists) ==
    LET hits == {i \in DOMAIN watch : articles_of(lists, watch[i]) # <<>>}
        nth[k \in 0..Cardinality(hits)] ==
            IF k = 0 THEN 0 ELSE CHOOSE i \in hits : i > nth[k - 1] /\ \A j \in hits : j > nth[k - 1] => i <= j
    IN  [k \in 1..Cardinality(hits) |-> ticker_section(watch[nth[k]], lists)]

\* the loop of line 380: one section per entry of watch_tickers, in that order
ticker_sections(watch, lists) == [i \in DOMAIN watch |-> ticker_section(watch[i], lists)]

\* generate_html_report, lines 230-467: what the HTML shows
generate_html_report(articles, lists, watch) ==
    [done |-> TRUE, overall |-> overall_summary(articles),
     sections |-> ticker_sections(watch, lists)]

-----------------------------------------------------------------------------
(* Construction, shared by every specification *)

NoReport == [done |-> FALSE, overall |-> [label |-> "", total |-> 0, n |-> 1], sections |-> <<>>]

InitWith(configs, texts) ==
    /\ pc = "main"
    /\ \E c \in configs : environ = c[1] /\ mappings_file = c[2]
    /\ watch_tickers = <<>>
    /\ ticker_to_names = <<>>
    /\ extract_call \in {[done |-> FALSE, text |-> t, result |-> {}] : t \in texts}
    /\ feed_no = 0
    /\ feed_entries = <<>>
    /\ entry_no = 0
    /\ feed_log = <<>>
    /\ all_articles = <<>>
    /\ ticker_articles = <<>>
    /\ report = NoReport
    /\ email = "none"

\* main, lines 500-510: the monitor is constructed whatever the environment holds
Main ==
    /\ pc = "main"
    /\ watch_tickers' = ParseWatchTickers(environ)
    /\ ticker_to_names' = InitTickerToNames(mappings_file, watch_tickers')
    /\ pc' = "ready"
    /\ UNCHANGED <<environ, mappings_file, extract_call, feed_no, feed_entries,
                   entry_no, feed_log, all_articles, ticker_articles, report, email>>

\* __init__, lines 38-39: loading the tokenizer or the model raises, and the exception
\* leaves main
MainModelLoadFails ==
    /\ pc = "main"
    /\ pc' = "crashed"
    /\ UNCHANGED <<environ, mappings_file, watch_tickers, ticker_to_names, extract_call,
                   feed_no, feed_entries, entry_no, feed_log, all_articles,
                   ticker_articles, report, email>>

-----------------------------------------------------------------------------
(* run_daily_scan *)

\* feed.entries[:10], line 186
EntryCap == 10

Malformed == [malformed |-> TRUE, title |-> <<>>, summary |-> <<>>, scorer |-> ScorerRaises]
Entry(title, summary, scorer) ==
    [malformed |-> FALSE, title |-> title, summary |-> summary, scorer |-> scorer]

\* the raw items a feed may deliver
EntryKinds ==
    {Entry(T_ApplePosts, <<>>, ScorerGives(70, 30)),
     Entry(T_TeslaMisses, <<>>, ScorerGives(20, 50)),
     Entry(T_ApplePosts, S_TSLA, ScorerGives(70, 30)),
     Entry(T_ApplePosts, S_TSLA, ScorerRaises),
     Malformed}

SeqsUpTo(S, n) == UNION {[1..k -> S] : k \in 0..n}

RECURSIVE ItemsSeen(_)
ItemsSeen(log) == IF log = <<>> THEN 0 ELSE Len(Head(log).entries) + ItemsSeen(Tail(log))

\* run_daily_scan, line 493, and fetch_and_analyse_articles, lines 174-177
StartScan ==
    /\ pc = "ready"
    /\ pc' = "scan"
    /\ feed_no' = 1
    /\ all_articles' = <<>>
    /\ ticker_articles' = <<>>
    /\ UNCHANGED <<environ, mappings_file, watch_tickers, ticker_to_names, extract_call,
                   feed_entries, entry_no, feed_log, report, email>>

\* lines 181-186: the feed is parsed and its first entries are taken
FetchFeed ==
    /\ pc = "scan"
    /\ feed_no <= NumFeeds
    /\ \E entries \in SeqsUpTo(EntryKinds, MaxItems - ItemsSeen(feed_log)) :
          feed_entries' = SubSeq(entries, 1, Min(EntryCap, Len(entries)))
    /\ entry_no' = 0
    /\ pc' = "entries"
    /\ UNCHANGED <<environ, mappings_file, watch_tickers, ticker_to_names, extract_call,
                   feed_no, feed_log, all_articles, ticker_articles, report, email>>

\* lines 181-182 raise: the except of line 219 ends this feed before any entry
FeedFails ==
    /\ pc = "scan"
    /\ feed_no <= NumFeeds
    /\ feed_log' = Append(feed_log, [entries |-> <<>>, processed |-> 0, ended |-> "feed raised"])
    /\ feed_no' = feed_no + 1
    /\ UNCHANGED <<pc, environ, mappings_file, watch_tickers, ticker_to_names,
                   extract_call, feed_entries, entry_no, all_articles, ticker_articles,
                   report, email>>

\* lines 187-215 for the next entry of the feed
ProcessEntry ==
    /\ pc = "entries"
    /\ entry_no < Len(feed_entries)
    /\ LET entry == feed_entries[entry_no + 1]
           text == combined_text(entry.title, entry.summary)
           mentioned_tickers == extract_tickers(text, watch_tickers, ticker_to_names)
           verdict == analyse_sentiment(entry.scorer)
           article == make_article(<<feed_no, entry_no + 1>>, entry, mentioned_tickers, verdict)
       IN  /\ ~ entry.malformed
           /\ ~ verdict.raised
           /\ all_articles' = Append(all_articles, article)
           /\ ticker_articles' = fan_out(ticker_articles, mentioned_tickers, article)
    /\ entry_no' = entry_no + 1
    /\ UNCHANGED <<pc, environ, mappings_file, watch_tickers, ticker_to_names,
                   extract_call, feed_no, feed_entries, feed_log, report, email>>

\* an exception inside the entry loop: the try of line 180 encloses the whole loop, so
\* the except of line 219 ends the feed and the loop of line 179 goes on
EntryRaises ==
    /\ pc = "entries"
    /\ entry_no < Len(feed_entries)
    /\ LET entry == feed_entries[entry_no + 1]
       IN  entry.malformed \/ analyse_sentiment(entry.scorer).raised
    /\ feed_log' = Append(feed_log, [entries |-> feed_entries, processed |-> entry_no,
                                     ended |-> "entry raised"])
    /\ feed_no' = feed_no + 1
    /\ pc' = "scan"
    /\ UNCHANGED <<environ, mappings_file, watch_tickers, ticker_to_names, extract_call,
                   feed_entries, entry_no, all_articles, ticker_articles, report, email>>

\* line 217: the entries of the feed are exhausted
EndFeed ==
    /\ pc = "entries"
    /\ entry_no = Len(feed_entries)
    /\ feed_log' = Append(feed_log, [entries |-> feed_entries, processed |-> entry_no,
                                     ended |-> "ok"])
    /\ feed_no' = feed_no + 1
    /\ pc' = "scan"
    /\ UNCHANGED <<environ, mappings_file, watch_tickers, ticker_to_names, extract_call,
                   feed_entries, entry_no, all_articles, ticker_articles, report, email>>

\* lines 222-228: every feed was read; dict(ticker_articles) is returned
FinishScan ==
    /\ pc = "scan"
    /\ feed_no > NumFeeds
    /\ pc' = "report"
    /\ UNCHANGED <<environ, mappings_file, watch_tickers, ticker_to_names, extract_call,
                   feed_no, feed_entries, entry_no, feed_log, all_articles,
                   ticker_articles, report, email>>

\* run_daily_scan, line 494
GenerateReport ==
    /\ pc = "report"
    /\ report' = generate_html_report(all_articles, ticker_articles, watch_tickers)
    /\ pc' = "send"
    /\ UNCHANGED <<environ, mappings_file, watch_tickers, ticker_to_names, extract_call,
                   feed_no, feed_entries, entry_no, feed_log, all_articles,
                   ticker_articles, email>>

\* send_email, lines 469-490: the mail goes out, or the failure is printed and swallowed
SendEmail ==
    /\ pc = "send"
    /\ email' \in {"sent", "failed"}
    /\ pc' = "done"
    /\ UNCHANGED <<environ, mappings_file, watch_tickers, ticker_to_names, extract_call,
                   feed_no, feed_entries, entry_no, feed_log, all_articles,
                   ticker_articles, report>>

-----------------------------------------------------------------------------
(* Specification Spec: one run of main() *)

\* WATCH_TICKERS with the mapping file found beside it
RunConfigs ==
    {<<NoEnviron, FileMissing>>,
     <<EnvWith(E_AAPL_TSLA), FileJson(FullData)>>,
     <<EnvWith(E_AAPL_TSLA), FileMissing>>,
     <<EnvWith(E_dup), FileJson(FullData)>>}

Init == InitWith(RunConfigs, {<<>>})

Next ==
    \/ Main
    \/ MainModelLoadFails
    \/ StartScan
    \/ FetchFeed
    \/ FeedFails
    \/ ProcessEntry
    \/ EntryRaises
    \/ EndFeed
    \/ FinishScan
    \/ GenerateReport
    \/ SendEmail

Spec == Init /\ [][Next]_vars

-----------------------------------------------------------------------------
(* Specification SpecReport: generate_html_report as a function of its lists.  The   *)
(* run has read one feed whose entries all name AAPL; the other feeds failed.      *)

ReportOutcomes ==
    {ScorerGives(80, 20), ScorerGives(60, 30), ScorerGives(40, 40), ScorerGives(30, 60),
     ScorerGives(10, 70)}

ReportFeeds == SeqsUpTo({Entry(S_AAPL, <<>>, o) : o \in ReportOutcomes}, MaxArticles)

InitReport ==
    /\ pc = "report"
    /\ environ = EnvWith(S_AAPL)
    /\ mappings_file = FileMissing
    /\ watch_tickers = ParseWatchTickers(environ)
    /\ ticker_to_names = InitTickerToNames(mappings_file, watch_tickers)
    /\ extract_call = [done |-> FALSE, text |-> <<>>, result |-> {}]
    /\ feed_no = NumFeeds + 1
    /\ feed_entries \in ReportFeeds
    /\ entry_no = Len(feed_entries)
    /\ feed_log = [f \in 1..NumFeeds |->
                      IF f = 1
                      THEN [entries |-> feed_entries, processed |-> entry_no, ended |-> "ok"]
                      ELSE [entries |-> <<>>, processed |-> 0, ended |-> "feed raised"]]
    /\ all_articles = [k \in DOMAIN feed_entries |->
                          make_article(<<1, k>>, feed_entries[k], {S_AAPL},
                                       analyse_sentiment(feed_entries[k].scorer))]
    /\ ticker_articles = IF all_articles = <<>> THEN <<>> ELSE (S_AAPL :> all_articles)
    /\ report = NoReport
    /\ email = "none"

NextReport == GenerateReport

SpecReport == InitReport /\ [][NextReport]_vars

-----------------------------------------------------------------------------
(* Specification SpecExtract: extract_tickers as a function of its text *)

Fragments ==
    {T_OpenAI, T_MicroStrategy, F_Open, F_AI, F_space, F_source, F_Armstrong,
     F_fig, F_ure, F_aapl, S_MSTR, S_Tesla}

RECURSIVE FragTexts(_)
FragTexts(n) ==
    IF n = 0
    THEN {<<>>}
    ELSE LET shorter == FragTexts(n - 1)
         IN  shorter \cup {t \o f : t \in shorter, f \in Fragments}

ExtractEnvs == {NoEnviron, EnvWith(E_AAPL_TSLA), EnvWith(E_open_MSTR), EnvWith(E_FIG_OPEN_AAPL)}
ExtractFiles ==
    {FileMissing, FileMalformed, FileJson(FullData), FileJson(PartialData),
     FileJson(DegenerateData)}

ExtractTexts == FragTexts(MaxFrags)

InitExtract == InitWith(ExtractEnvs \X ExtractFiles, ExtractTexts)

\* one call extract_tickers(text) on the constructed monitor
ExtractCall ==
    /\ pc = "ready"
    /\ ~ extract_call.done
    /\ extract_call' = [extract_call EXCEPT
                           !.done = TRUE,
                           !.result = extract_tickers(extract_call.text, watch_tickers,
                                                      ticker_to_names)]
    /\ UNCHANGED <<pc, environ, mappings_file, watch_tickers, ticker_to_names, feed_no,
                   feed_entries, entry_no, feed_log, all_articles, ticker_articles,
                   report, email>>

NextExtract == Main \/ ExtractCall

SpecExtract == InitExtract /\ [][NextExtract]_vars

-----------------------------------------------------------------------------
(* Claims about extract_tickers, checked under SpecExtract *)

ExclusionPhrases(T) ==
    IF T \in DOMAIN false_positive_filters
    THEN Range(false_positive_filters[T].exclude_phrases)
    ELSE {}

SomeAliasOccurs(T, text_lower) ==
    \E k \in DOMAIN ticker_to_names[T] : Contains(text_lower, Lower(ticker_to_names[T][k]))

Vetoed(T, text_lower) == \E p \in ExclusionPhrases(T) : Contains(text_lower, p)

\* C1: for a watch-list ticker T with an alias entry, extract_tickers returns T exactly
\* when some lower-cased alias of T occurs in the lower-cased text and no exclusion
\* phrase of T occurs in it; require_context plays no part, and one ticker's veto
\* leaves every other ticker's membership as its own aliases and phrases decide it.
\* OPEN is not returned for a text containing "OpenAI announced...", and MSTR, with
\* the alias MicroStrategy, is returned for "MicroStrategy bought more bitcoin".
C1_AliasMatchAndVeto ==
    extract_call.done =>
        LET text_lower == Lower(extract_call.text)
        IN  /\ \A T \in Range(watch_tickers) :
                  T \in DOMAIN ticker_to_names =>
                      (T \in extract_call.result <=>
                          SomeAliasOccurs(T, text_lower) /\ ~ Vetoed(T, text_lower))
            /\ extract_call.result \subseteq Range(watch_tickers)
            /\ (S_OPEN \in DOMAIN ticker_to_names /\ Contains(extract_call.text, T_OpenAI))
                  => S_OPEN \notin extract_call.result
            /\ (/\ S_MSTR \in Range(watch_tickers)
                /\ S_MSTR \in DOMAIN ticker_to_names
                /\ S_MicroStrategy \in Range(ticker_to_names[S_MSTR])
                /\ extract_call.text = T_MicroStrategy)
                  => S_MSTR \in extract_call.result

\* C1 witness: OPEN's alias occurs and is vetoed while MSTR, matched with none of its
\* require_context phrases in the text, is returned by the same call.
C1_Witness ==
    /\ extract_call.done
    /\ S_OPEN \in DOMAIN ticker_to_names
    /\ SomeAliasOccurs(S_OPEN, Lower(extract_call.text))
    /\ Vetoed(S_OPEN, Lower(extract_call.text))
    /\ S_OPEN \notin extract_call.result
    /\ S_MSTR \in extract_call.result
    /\ ~ \E i \in DOMAIN false_positive_filters[S_MSTR].require_context :
            Contains(Lower(extract_call.text), false_positive_filters[S_MSTR].require_context[i])

NoConfiguredEntry(T) == mappings_file.kind # "json" \/ T \notin DOMAIN mappings_file.data

SymbolOccurs(T, text) == Contains(Lower(text), Lower(T))

\* C2 as stated: a watch-list ticker with no configured alias entry is returned exactly
\* when the text contains its bare symbol case-insensitively, whether the mapping file
\* is missing or malformed or merely lacks the entry.
C2_BareSymbolOnly ==
    extract_call.done =>
        \A T \in Range(watch_tickers) :
            NoConfiguredEntry(T) =>
                (T \in extract_call.result <=> SymbolOccurs(T, extract_call.text))

\* C2 as amended: when the file loads without an entry for T, T is returned exactly
\* when the text contains the bare symbol case-insensitively; when the file is missing
\* or malformed, T is returned exactly when the text contains the bare symbol
\* case-insensitively and no exclusion phrase of T's rule occurs in the text.
C2_BareSymbolPerSituation ==
    extract_call.done =>
        \A T \in Range(watch_tickers) :
            NoConfiguredEntry(T) =>
                (T \in extract_call.result <=>
                    /\ SymbolOccurs(T, extract_call.text)
                    /\ mappings_file.kind # "json" => ~ Vetoed(T, Lower(extract_call.text)))

\* C2 witness: the file loads without an entry for OPEN, and OPEN is returned for a
\* text that holds the symbol in mixed case inside an exclusion phrase.
C2_Witness ==
    /\ extract_call.done
    /\ mappings_file.kind = "json"
    /\ S_OPEN \in Range(watch_tickers)
    /\ NoConfiguredEntry(S_OPEN)
    /\ Contains(extract_call.text, T_OpenAI)
    /\ S_OPEN \in extract_call.result

-----------------------------------------------------------------------------
(* Claims about the run, checked under Spec *)

\* the entries of feed f as far as the loop of line 186 has got, and how many of them
\* went through lines 187-215
FeedsRead == Len(feed_log) + (IF pc = "entries" THEN 1 ELSE 0)
EntriesOfFeed(f) == IF f <= Len(feed_log) THEN feed_log[f].entries ELSE feed_entries
ProcessedOfFeed(f) == IF f <= Len(feed_log) THEN feed_log[f].processed ELSE entry_no

RECURSIVE ProcessedItems(_)
ProcessedItems(f) ==
    IF f = 0
    THEN <<>>
    ELSE ProcessedItems(f - 1) \o [k \in 1..ProcessedOfFeed(f) |-> <<f, k>>]

Mentions(T, a) == T \in a.tickers

\* C3: the full list holds exactly one article per processed item, in processing
\* order; for every ticker T, T's list is the full list restricted to the articles
\* whose ticker set holds T, so an article is in T's list once if it mentions T and not
\* at all otherwise, and T's list keeps the order of the full list.
C3_FanOut ==
    /\ [i \in DOMAIN all_articles |-> all_articles[i].entry] = ProcessedItems(FeedsRead)
    /\ \A T \in Range(watch_tickers) \cup DOMAIN ticker_articles :
          articles_of(ticker_articles, T) = SelectSeq(all_articles, LAMBDA a : Mentions(T, a))

\* C3 witness: an article that mentions two tickers is in both lists and once in the
\* full list, next to an article that mentions only one of them.
C3_Witness ==
    /\ Len(all_articles) >= 2
    /\ \E i, j \in DOMAIN all_articles :
          /\ all_articles[i].tickers = {S_AAPL, S_TSLA}
          /\ all_articles[j].tickers = {S_TSLA}
          /\ Len(articles_of(ticker_articles, S_TSLA)) = Len(articles_of(ticker_articles, S_AAPL)) + 1

\* the mean total / n of a non-empty list falls in the class the report names
InReportClass(label, total, n) ==
    /\ label = "BULLISH" <=> total > 30 * n
    /\ label = "Slightly Bullish" <=> (total > 0 /\ total <= 30 * n)
    /\ label = "BEARISH" <=> total < -30 * n
    /\ label = "Slightly Bearish" <=> (total < 0 /\ total >= -30 * n)
    /\ label = "Neutral" <=> total = 0

\* the label of section 4.3 for the mean total / n
Section43Label(total, n) ==
    IF total > 50 * n THEN "VERY_BULLISH"
    ELSE IF total > 10 * n THEN "BULLISH"
    ELSE IF total < -50 * n THEN "VERY_BEARISH"
    ELSE IF total < -10 * n THEN "BEARISH"
    ELSE "NEUTRAL"

\* the report's labels in the spelling of section 4.3
SpecSpelling(label) ==
    CASE label = "BULLISH" -> "BULLISH"
      [] label = "BEARISH" -> "BEARISH"
      [] label = "Neutral" -> "NEUTRAL"
      [] label = "Slightly Bullish" -> "SLIGHTLY_BULLISH"
      [] label = "Slightly Bearish" -> "SLIGHTLY_BEARISH"
      [] OTHER -> label

TotalOf(articles) == sum_scores(articles)

\* the end-to-end example: watch-list AAPL, TSLA and the two articles of section 8
IsSection8Example ==
    /\ watch_tickers = <<S_AAPL, S_TSLA>>
    /\ Len(all_articles) = 2
    /\ all_articles[1].title = T_ApplePosts /\ all_articles[1].score = 40
    /\ all_articles[1].tickers = {S_AAPL}
    /\ all_articles[2].title = T_TeslaMisses /\ all_articles[2].score = -30
    /\ all_articles[2].tickers = {S_TSLA}

C6_EachTickerExactlyOnce ==
    report.done =>
        /\ \A T \in Range(watch_tickers) :
              Cardinality({i \in DOMAIN report.sections : report.sections[i].ticker = T}) = 1
        /\ \A i \in DOMAIN report.sections : report.sections[i].ticker \in Range(watch_tickers)
        /\ \A i, j \in DOMAIN report.sections :
              i < j => \E m, n \in DOMAIN watch_tickers :
                          /\ m < n
                          /\ watch_tickers[m] = report.sections[i].ticker
                          /\ watch_tickers[n] = report.sections[j].ticker
        /\ \A i \in DOMAIN report.sections :
              report.sections[i].no_articles
                  <=> ~ \E k \in DOMAIN all_articles :
                          Mentions(report.sections[i].ticker, all_articles[k])

\* C6 as amended: the report has exactly one section per entry of the watch-list, in
\* watch-list order and for no other ticker, so a symbol that WATCH_TICKERS lists
\* twice has two sections; the section of a ticker that no article of the batch
\* mentions is the no-articles section, and only such a ticker gets it.
C6_SectionPerWatchedTicker ==
    report.done =>
        /\ [i \in DOMAIN report.sections |-> report.sections[i].ticker] = watch_tickers
        /\ \A i \in DOMAIN report.sections :
              LET section == report.sections[i]
                  matched == {k \in DOMAIN all_articles : Mentions(section.ticker, all_articles[k])}
              IN  /\ section.no_articles <=> matched = {}
                  /\ section.count = Cardinality(matched)

\* C6 witness: a report over a batch that mentions one watched ticker and not the other.
C6_Witness ==
    /\ report.done
    /\ Len(report.sections) = 2
    /\ ~ report.sections[1].no_articles
    /\ report.sections[2].no_articles
    /\ all_articles # <<>>

\* the texts a feed entry can carry, and for each configuration of the run the tickers
\* extract_tickers finds in each of them
RunTexts == {combined_text(e.title, e.summary) : e \in EntryKinds}
MentionedIn ==
    [c \in RunConfigs, text \in RunTexts |->
        LET watch == ParseWatchTickers(c[1])
        IN  extract_tickers(text, watch, InitTickerToNames(c[2], watch))]

\* what lines 187-215 make of a raw item when the scorer answers
ScoredNormally(a, entry) ==
    LET score == entry.scorer.positive_prob - entry.scorer.negative_prob
    IN  a.score = score /\ a.sentiment = score_label(score)

\* C7: a scorer failure on one item does not end the feed: every item of a feed that
\* no malformed item precedes has its article, in the full list and in the list of each
\* of its tickers; the article of an item whose scoring failed has score 0.0 and label
\* Neutral; every other article has the score, label and ticker set that its own item
\* gives when the scorer answers, whatever happened to the other items.
C7_ScorerFailureIsAbsorbed ==
    /\ \A f \in 1..FeedsRead :
          \A k \in DOMAIN EntriesOfFeed(f) :
              (/\ \A j \in 1..k : ~ EntriesOfFeed(f)[j].malformed
               /\ f > Len(feed_log) => k <= entry_no)
                  => \E i \in DOMAIN all_articles : all_articles[i].entry = <<f, k>>
    /\ \A i \in DOMAIN all_articles :
          LET a == all_articles[i]
              entry == EntriesOfFeed(a.entry[1])[a.entry[2]]
          IN  /\ entry.scorer.raised => (a.score = 0 /\ a.sentiment = "Neutral")
              /\ ~ entry.scorer.raised => ScoredNormally(a, entry)
              /\ a.tickers = MentionedIn[<<environ, mappings_file>>,
                                         combined_text(entry.title, entry.summary)]
              /\ \A T \in a.tickers :
                    \E n \in DOMAIN articles_of(ticker_articles, T) :
                        articles_of(ticker_articles, T)[n] = a

\* C7 witness: the scorer failed on the first item of a feed and the item after it was
\* scored and filed as usual.
C7_Witness ==
    /\ Len(all_articles) >= 2
    /\ all_articles[1].entry = <<1, 1>>
    /\ EntriesOfFeed(1)[1].scorer.raised
    /\ all_articles[1].score = 0
    /\ all_articles[1].tickers # {}
    /\ all_articles[2].entry = <<1, 2>>
    /\ all_articles[2].score = -30

\* C8: when one raw item raises, only that item is skipped: every other item of every
\* feed that was read, before or after it, has its article in the full list.
C8_OnlyTheFailedItemIsSkipped ==
    \A f \in 1..Len(feed_log) :
        \A k \in DOMAIN feed_log[f].entries :
            ~ feed_log[f].entries[k].malformed
                => \E i \in DOMAIN all_articles : all_articles[i].entry = <<f, k>>

WatchListEmpty == environ_get(environ, "WATCH_TICKERS", <<>>) = <<>>

ScoringCalls ==
    {all_articles[i].entry : i \in DOMAIN all_articles}

ScorerUnavailable ==
    /\ ScoringCalls # {}
    /\ \A u \in ScoringCalls : EntriesOfFeed(u[1])[u[2]].scorer.raised

\* C9: when the watch-list is empty (WATCH_TICKERS unset or empty), or when every
\* scoring call of the run failed, no report is produced or sent and the run does not
\* end normally.
C9_WholeRunFailureIsSurfaced ==
    (WatchListEmpty \/ (pc \in {"report", "send", "done"} /\ ScorerUnavailable))
        => (~ report.done /\ email = "none" /\ pc # "done")

-----------------------------------------------------------------------------
(* Claims about the report, checked under SpecReport *)

\* C5: an empty article list gives score 0.0 and the label No Data; a non-empty list
\* never gives No Data; a list of one article with score 0.0 gives Neutral.
C5_NoDataOnlyForEmpty ==
    report.done =>
        /\ all_articles = <<>> => (report.overall.label = "No Data" /\ report.overall.total = 0)
        /\ all_articles # <<>> => report.overall.label # "No Data"
        /\ (Len(all_articles) = 1 /\ all_articles[1].score = 0)
              => report.overall.label = "Neutral"

\* C5 witness: the report over a single article of score 0.0.
C5_Witness ==
    /\ report.done
    /\ Len(all_articles) = 1
    /\ all_articles[1].score = 0
    /\ report.overall.label = "Neutral"

PositionIn(articles, a) == CHOOSE i \in DOMAIN articles : articles[i] = a

\* C10: the headlines of a ticker's section are min(5, length) articles of its list,
\* each taken once, in non-increasing absolute score; no headline has a smaller
\* absolute score than an omitted article; of two articles with the same absolute
\* score the earlier of the list comes first among the headlines, and is the one kept
\* when a later one is omitted.
C10_TopFiveStable ==
    report.done =>
        \A s \in DOMAIN report.sections :
            LET articles == articles_of(ticker_articles, report.sections[s].ticker)
                shown == report.sections[s].headlines
                omitted == Range(articles) \ Range(shown)
            IN  /\ Len(shown) = Min(5, Len(articles))
                /\ Range(shown) \subseteq Range(articles)
                /\ \A i, j \in DOMAIN shown : i # j => shown[i] # shown[j]
                /\ \A i, j \in DOMAIN shown :
                      i < j => Abs(shown[i].score) >= Abs(shown[j].score)
                /\ \A h \in Range(shown) : \A a \in omitted :
                      Abs(h.score) >= Abs(a.score)
                /\ \A i, j \in DOMAIN shown :
                      (i < j /\ Abs(shown[i].score) = Abs(shown[j].score))
                          => PositionIn(articles, shown[i]) < PositionIn(articles, shown[j])
                /\ \A h \in Range(shown) : \A a \in omitted :
                      Abs(h.score) = Abs(a.score)
                          => PositionIn(articles, h) < PositionIn(articles, a)

\* C10 witness: six articles of which the last has the absolute score of the fifth
\* headline, with the other sign, and is the one left out.
C10_Witness ==
    /\ report.done
    /\ Len(all_articles) = 6
    /\ LET shown == report.sections[1].headlines
       IN  /\ Len(shown) = 5
           /\ all_articles[6] \notin Range(shown)
           /\ all_articles[6].score # 0
           /\ all_articles[6].score = - shown[5].score

-----------------------------------------------------------------------------
(* Claims about the alias sets after construction, checked under SpecExtract *)

Constructed == pc # "main"

\* C11 as stated: after construction every ticker of the watch-list has an alias list
\* in ticker_to_names and that list is non-empty, so that at least one alias string
\* exists to match it, whatever the mapping file holds (file absent, entry absent,
\* entry without an 'aliases' key, entry with an empty 'aliases' list).
C11_EveryTickerHasAliases ==
    Constructed =>
        \A T \in Range(watch_tickers) :
            /\ T \in DOMAIN ticker_to_names
            /\ ticker_to_names[T] # <<>>

\* C12 as stated: the rule of FIG vetoes nothing, so that extract_tickers returns FIG
\* for every text in which an alias of FIG occurs, the text "figure" included.
C12_FigVetoesNothing ==
    (extract_call.done /\ S_FIG \in Range(watch_tickers) /\ S_FIG \in DOMAIN ticker_to_names)
        => (SomeAliasOccurs(S_FIG, Lower(extract_call.text)) => S_FIG \in extract_call.result)

\* C12 as amended: the rule of FIG excludes the phrases "figure" and "figures"; for a
\* watch-list FIG with an alias entry, extract_tickers returns FIG exactly when an alias
\* of FIG occurs in the lower-cased text and "figure" does not occur in it.
C12_FigVetoedByFigure ==
    (extract_call.done /\ S_FIG \in Range(watch_tickers) /\ S_FIG \in DOMAIN ticker_to_names)
        => LET text_lower == Lower(extract_call.text)
           IN  S_FIG \in extract_call.result <=>
                   /\ SomeAliasOccurs(S_FIG, text_lower)
                   /\ ~ Contains(text_lower, S_figure)

\* C12 witness: the alias FIG occurs in the text only inside the word "figure", and
\* FIG is not returned.
C12_Witness ==
    /\ extract_call.done
    /\ S_FIG \in Range(watch_tickers)
    /\ S_FIG \in DOMAIN ticker_to_names
    /\ extract_call.text = F_fig \o F_ure
    /\ SomeAliasOccurs(S_FIG, Lower(extract_call.text))
    /\ S_FIG \notin extract_call.result

=============================================================================
